---- MODULE Spec2Model ----
(***************************************************************************)
(* BaaS client templates (mbaas-inc/baas-claude-skills): the exposed       *)
(* functions and React hook actions, the environment they read the project *)
(* id from, the user agent's cookie jar and the BaaS server's answers.     *)
(*                                                                         *)
(* One call of an exposed function runs in a slot:                         *)
(*   Start    the synchronous prefix up to the first await on fetch        *)
(*   NetworkFail / Headers   fetch rejects / fetch resolves                *)
(*   Body     response.json() settles and the rest of the function runs    *)
(***************************************************************************)
EXTENDS Integers, Sequences, FiniteSets, TLC

VARIABLES env, mounted, opts, mountEffect, cookie, location, hook, calls,
          session, cfg, cls, ph, rd

vars == <<env, mounted, opts, mountEffect, cookie, location, hook, calls,
          session, cfg, cls, ph, rd>>

sdkVars == <<env, mounted, opts, mountEffect, cookie, location, hook, calls,
             session>>

Nil == "nil"

\* number of call slots that may be in flight together
MaxInFlight == 2

Slots == 1..MaxInFlight

(***************************************************************************)
(* Environment: the four project-id sources.  "" is an unset or empty      *)
(* variable (both are falsy for ||).  processDefined = FALSE is a runtime  *)
(* without the global `process` (a Vite browser bundle).  An absent        *)
(* import.meta is the same as VITE_BAAS_PROJECT_ID = "".                   *)
(***************************************************************************)
MkEnv(p, b, r, n, v) ==
  [processDefined |-> p, BAAS_PROJECT_ID |-> b, REACT_APP_BAAS_PROJECT_ID |-> r,
   NEXT_PUBLIC_BAAS_PROJECT_ID |-> n, VITE_BAAS_PROJECT_ID |-> v]

EnvNone == MkEnv(TRUE, "", "", "", "")
EnvNode == MkEnv(TRUE, "pid-baas", "", "", "")
EnvCra  == MkEnv(TRUE, "", "pid-react", "", "")
EnvVite == MkEnv(FALSE, "", "", "", "pid-vite")

EnvChoices == {EnvNone, EnvNode, EnvCra, EnvVite}

AllEnvs ==
  {e \in {MkEnv(p, b, r, n, v) : p \in BOOLEAN, b \in {"", "pid-baas"},
                                 r \in {"", "pid-react"}, n \in {"", "pid-next"},
                                 v \in {"", "pid-vite"}} :
     e.processDefined \/ (e.BAAS_PROJECT_ID = "" /\ e.REACT_APP_BAAS_PROJECT_ID = ""
                            /\ e.NEXT_PUBLIC_BAAS_PROJECT_ID = "")}

VarNames4 == {"BAAS_PROJECT_ID", "REACT_APP_BAAS_PROJECT_ID",
              "NEXT_PUBLIC_BAAS_PROJECT_ID", "VITE_BAAS_PROJECT_ID"}
VarNames3 == {"REACT_APP_BAAS_PROJECT_ID", "NEXT_PUBLIC_BAAS_PROJECT_ID",
              "VITE_BAAS_PROJECT_ID"}

(***************************************************************************)
(* Result of a project-id resolution: the id, or the error thrown.         *)
(***************************************************************************)
Resolved(id) == [ok |-> TRUE, value |-> id, errClass |-> Nil, message |-> Nil, names |-> {}]
ResolveThrow(class, msg, names) ==
  [ok |-> FALSE, value |-> Nil, errClass |-> class, message |-> msg, names |-> names]

\* a || b || c || d read as b || a || ... : the last truthy operand wins
OrChain_LastWins(vals) ==
  IF \E i \in 1..Len(vals) : vals[i] # ""
  THEN vals[CHOOSE i \in 1..Len(vals) :
              vals[i] # "" /\ \A j \in (i + 1)..Len(vals) : vals[j] = ""]
  ELSE ""

\* a || b || c || d : the first truthy operand, "" when all are falsy
OrChain(vals) ==
  IF \E i \in 1..Len(vals) : vals[i] # ""
  THEN vals[CHOOSE i \in 1..Len(vals) : vals[i] # "" /\ \A j \in 1..(i - 1) : vals[j] = ""]
  ELSE ""

ConfigMsg4 == "[BaaS] project_id env required (4 names)"
ConfigMsg3 == "[BaaS] project_id env not set (3 names)"
ConfigMsg0 == "[BaaS] project_id env required"
ProcessRefMsg == "process is not defined"

\* getProjectIdTs with the `if (!projectId) throw` left out
getProjectIdTs_NoEmptyTest(e) ==
  IF ~e.processDefined THEN ResolveThrow("ReferenceError", ProcessRefMsg, {})
  ELSE Resolved(OrChain(<<e.BAAS_PROJECT_ID, e.REACT_APP_BAAS_PROJECT_ID,
                          e.NEXT_PUBLIC_BAAS_PROJECT_ID, e.VITE_BAAS_PROJECT_ID>>))

\* getProjectId of the TypeScript templates: process.env is read unguarded
getProjectIdTs(e) ==
  IF ~e.processDefined THEN ResolveThrow("ReferenceError", ProcessRefMsg, {})
  ELSE LET projectId == OrChain(<<e.BAAS_PROJECT_ID, e.REACT_APP_BAAS_PROJECT_ID,
                                  e.NEXT_PUBLIC_BAAS_PROJECT_ID, e.VITE_BAAS_PROJECT_ID>>)
       IN IF projectId = "" THEN ResolveThrow("Error", ConfigMsg4, VarNames4)
          ELSE Resolved(projectId)

\* getProjectId of the JavaScript templates: typeof process guards each read
getProjectIdJs(e) ==
  LET g(x) == IF e.processDefined THEN x ELSE ""
      projectId == OrChain(<<g(e.BAAS_PROJECT_ID), g(e.REACT_APP_BAAS_PROJECT_ID),
                             g(e.NEXT_PUBLIC_BAAS_PROJECT_ID), e.VITE_BAAS_PROJECT_ID>>)
  IN IF projectId = "" THEN ResolveThrow("Error", ConfigMsg4, VarNames4)
     ELSE Resolved(projectId)

\* getProjectId of the React templates: three sources, process.env unguarded
getProjectIdReact(e) ==
  IF ~e.processDefined THEN ResolveThrow("ReferenceError", ProcessRefMsg, {})
  ELSE LET projectId == OrChain(<<e.REACT_APP_BAAS_PROJECT_ID,
                                  e.NEXT_PUBLIC_BAAS_PROJECT_ID, e.VITE_BAAS_PROJECT_ID>>)
       IN IF projectId = "" THEN ResolveThrow("Error", ConfigMsg3, VarNames3)
          ELSE Resolved(projectId)

\* getProjectId as the SKILL documents print it: four sources, unguarded, and
\* a message that names no variable
getProjectIdDoc(e) ==
  IF ~e.processDefined THEN ResolveThrow("ReferenceError", ProcessRefMsg, {})
  ELSE LET projectId == OrChain(<<e.BAAS_PROJECT_ID, e.REACT_APP_BAAS_PROJECT_ID,
                                  e.NEXT_PUBLIC_BAAS_PROJECT_ID, e.VITE_BAAS_PROJECT_ID>>)
       IN IF projectId = "" THEN ResolveThrow("Error", ConfigMsg0, {})
          ELSE Resolved(projectId)

\* login(userId, userPw, projectId = null) of login.js: the argument is put in
\* the body when truthy; the environment is never consulted
explicitProjectId(explicit) == Resolved(explicit)

Resolvers == {"ts", "js", "react", "doc", "explicit", "none"}

ResolveProjectId(variant, explicit, e) ==
  CASE variant = "ts" -> getProjectIdTs(e)
    [] variant = "js" -> getProjectIdJs(e)
    [] variant = "react" -> getProjectIdReact(e)
    [] variant = "doc" -> getProjectIdDoc(e)
    [] variant = "explicit" -> explicitProjectId(explicit)
    [] OTHER -> Resolved("")

(***************************************************************************)
(* Phones are sequences of one-character strings.                          *)
(***************************************************************************)
Digits == {"0", "1", "2", "3", "4", "5", "6", "7", "8", "9"}

\* validatePhone with the pattern's closing $ left out
validatePhone_NoEndAnchor(phone) ==
  /\ Len(phone) >= 13
  /\ phone[1] = "0" /\ phone[2] = "1" /\ phone[3] = "0" /\ phone[4] = "-"
  /\ \A i \in 5..8 : phone[i] \in Digits
  /\ phone[9] = "-"
  /\ \A i \in 10..13 : phone[i] \in Digits

\* /^010-\d{4}-\d{4}$/.test(phone)
validatePhone(phone) ==
  /\ Len(phone) = 13
  /\ phone[1] = "0" /\ phone[2] = "1" /\ phone[3] = "0" /\ phone[4] = "-"
  /\ \A i \in 5..8 : phone[i] \in Digits
  /\ phone[9] = "-"
  /\ \A i \in 10..13 : phone[i] \in Digits

PhoneValid    == <<"0","1","0","-","1","2","3","4","-","5","6","7","8">>
PhoneShort    == <<"0","1","0","-","1","2","-","3","4","5","6">>
PhoneBare     == <<"0","1","0","1","2","3","4","5","6","7","8">>
PhoneLong     == <<"0","1","0","-","1","2","3","4","-","5","6","7","8","9">>
PhonePrefixed == <<"+","0","1","0","-","1","2","3","4","-","5","6","7","8">>
PhoneOther    == <<"0","1","1","-","1","2","3","4","-","5","6","7","8">>
PhoneLetter   == <<"0","1","0","-","1","2","3","a","-","5","6","7","8">>
PhoneEmpty    == <<>>
PhoneValid2   == <<"0","1","0","-","0","0","0","0","-","9","9","9","9">>

Phones == {PhoneValid, PhoneValid2, PhoneShort, PhoneBare, PhoneLong, PhonePrefixed, PhoneOther,
           PhoneLetter, PhoneEmpty}

PhoneFormatMsg == "phone format is invalid (e.g. 010-1234-5678)"

(***************************************************************************)
(* The exposed functions that are modelled, one name per template variant  *)
(* with its own behaviour.                                                 *)
(***************************************************************************)
VanillaFns == {"signup", "signupStandalone", "login", "loginJs", "logout",
               "getAccountInfo", "checkAuth", "registerRecipient",
               "registerRecipientJs", "getNoticePosts", "getNoticePost",
               "getFaqPosts", "getFaqPost", "apiRequest"}

HookFns == {"useLogin.login", "useSignup.signup", "useSignupLegacy.signup",
            "useLogout.logout", "useAccountInfo.fetchAccountInfo",
            "useRecipient.register", "useNotice.fetchPosts", "useNotice.fetchPost",
            "useFaq.fetchPosts", "useFaq.fetchPost"}

Fns == VanillaFns \cup HookFns

Hooks == {"useLogin", "useSignup", "useSignupLegacy", "useLogout", "useAccountInfo",
          "useRecipient", "useNotice", "useFaq"}

\* the hook instance an action belongs to; "none" for a plain function
HookOf(f) ==
  CASE f = "useLogin.login" -> "useLogin"
    [] f = "useSignup.signup" -> "useSignup"
    [] f = "useSignupLegacy.signup" -> "useSignupLegacy"
    [] f = "useLogout.logout" -> "useLogout"
    [] f = "useAccountInfo.fetchAccountInfo" -> "useAccountInfo"
    [] f = "useRecipient.register" -> "useRecipient"
    [] f \in {"useNotice.fetchPosts", "useNotice.fetchPost"} -> "useNotice"
    [] f \in {"useFaq.fetchPosts", "useFaq.fetchPost"} -> "useFaq"
    [] OTHER -> "none"

\* the server operation a function calls
Service(f) ==
  CASE f \in {"signup", "signupStandalone", "useSignup.signup",
              "useSignupLegacy.signup"} -> "signup"
    [] f \in {"login", "loginJs", "useLogin.login"} -> "login"
    [] f \in {"logout", "useLogout.logout"} -> "logout"
    [] f \in {"getAccountInfo", "checkAuth", "useAccountInfo.fetchAccountInfo"} -> "info"
    [] f \in {"registerRecipient", "registerRecipientJs", "useRecipient.register"}
         -> "recipient"
    [] f = "apiRequest" -> "generic"
    [] OTHER -> "board"

\* method: of the fetch options
Method(f) ==
  IF Service(f) \in {"info", "board", "generic"} THEN "GET" ELSE "POST"

\* the path of the fetch URL, after the base URL
Endpoint(f) ==
  CASE f = "signup" -> "/account/signup-project"
    [] Service(f) = "signup" -> "/account/signup"
    [] Service(f) = "login" -> "/account/login"
    [] Service(f) = "logout" -> "/account/logout"
    [] Service(f) = "info" -> "/account/info"
    [] Service(f) = "recipient" -> "/recipient/{projectId}"
    [] Service(f) = "generic" -> "{endpoint}"
    [] f \in {"getNoticePosts", "useNotice.fetchPosts"}
         -> "/public/board/notice/{projectId}/posts"
    [] f \in {"getNoticePost", "useNotice.fetchPost"}
         -> "/public/board/notice/{projectId}/posts/{postId}"
    [] f \in {"getFaqPosts", "useFaq.fetchPosts"}
         -> "/public/board/faq/{projectId}/posts"
    [] OTHER -> "/public/board/faq/{projectId}/posts/{postId}"

\* credentials: of the fetch options; "omit" when the option is not given
\* (the default same-origin mode sends no cookie to the API origin)
Credentials(f) ==
  IF f \in {"signupStandalone", "useSignupLegacy.signup"} THEN "omit" ELSE "include"

\* which getProjectId the function calls while it builds the request
ResolverOf(f) ==
  CASE f \in {"logout", "getAccountInfo", "checkAuth", "useLogout.logout",
              "useAccountInfo.fetchAccountInfo", "useSignupLegacy.signup",
              "apiRequest"} -> "none"
    [] f = "loginJs" -> "explicit"
    [] f = "registerRecipientJs" -> "js"
    [] f \in HookFns -> "react"
    [] OTHER -> "ts"

\* functions that validate request.phone before anything else
PhoneChecked(f) ==
  f \in {"registerRecipient", "registerRecipientJs", "useRecipient.register"}

\* the fallback text of `result.message || '...'`; apiRequest builds it from
\* result.errorCode, which reads "undefined" when the body has none
DefaultMessage(f, errorCode) ==
  CASE Service(f) = "signup" -> "signup failed"
    [] Service(f) = "login" -> "login failed"
    [] Service(f) = "logout" -> "logout failed"
    [] Service(f) = "info" -> "account info failed"
    [] Service(f) = "recipient" -> "recipient registration failed"
    [] Service(f) = "generic" ->
         "API Error: " \o (IF errorCode = Nil THEN "undefined" ELSE errorCode)
    [] OTHER -> "board fetch failed"

LoginFns == {"login", "loginJs", "useLogin.login"}
LogoutFns == {"logout", "useLogout.logout"}

(***************************************************************************)
(* Requests, response bodies and the way a call settles.                   *)
(***************************************************************************)
\* body: the fields of the JSON body of a recipient request, in order, each a
\* pair <<key, text>>; the bodies of the other requests are not modelled
NoRequest ==
  [sent |-> FALSE, method |-> Nil, endpoint |-> Nil, credentials |-> Nil,
   cookieAttached |-> FALSE, projectId |-> Nil, body |-> <<>>]

MkRequest(f, pid, jar) ==
  [sent |-> TRUE, method |-> Method(f), endpoint |-> Endpoint(f),
   credentials |-> Credentials(f),
   cookieAttached |-> (Credentials(f) = "include" /\ jar), projectId |-> pid,
   body |-> <<>>]

\* the arguments of registerRecipient besides the phone: description is a
\* string or Nil (not given); metadata is not given, or an object given as
\* the sequence of its <<key, string value>> entries
NoArgs == [name |-> Nil, description |-> Nil,
           metadata |-> [given |-> FALSE, entries |-> <<>>]]

\* a request with the required fields only
DefaultArgs == [NoArgs EXCEPT !.name = "Kim"]

RecipientArgs ==
  [name : {"Kim"}, description : {Nil, "", "memo"},
   metadata : {[given |-> FALSE, entries |-> <<>>],
               [given |-> TRUE, entries |-> <<>>],
               [given |-> TRUE, entries |-> <<<<"source", "web">>, <<"n", "1">>>>]}]

\* the characters of s as one string
RECURSIVE Concat(_)
Concat(s) == IF s = <<>> THEN "" ELSE Head(s) \o Concat(Tail(s))

\* "k":"v","k":"v",... for the entries from the i-th on
RECURSIVE JsonMembers(_, _)
JsonMembers(entries, i) ==
  IF i > Len(entries) THEN ""
  ELSE "\"" \o entries[i][1] \o "\":\"" \o entries[i][2] \o "\""
         \o (IF i < Len(entries) THEN "," ELSE "") \o JsonMembers(entries, i + 1)

\* JSON.stringify of an object with string values
JsonStringify(entries) == "{" \o JsonMembers(entries, 1) \o "}"

\* the body with metadata passed on as it was given, under its own key
RecipientBody_SendsMetadata(phone, args) ==
  <<<<"name", args.name>>, <<"phone", Concat(phone)>>,
    <<"description", IF args.description \in {Nil, ""} THEN " " ELSE args.description>>>>
    \o (IF args.metadata.given
        THEN <<<<"metadata", JsonStringify(args.metadata.entries)>>>> ELSE <<>>)

\* body: JSON.stringify({ name, phone, description: description || ' ',
\*                        data: metadata ? JSON.stringify(metadata) : '{}' })
RecipientBody(phone, args) ==
  <<<<"name", args.name>>, <<"phone", Concat(phone)>>,
    <<"description", IF args.description \in {Nil, ""} THEN " " ELSE args.description>>,
    <<"data", IF args.metadata.given THEN JsonStringify(args.metadata.entries)
              ELSE "{}">>>>

NoResponse ==
  [kind |-> "none", result |-> Nil, message |-> "", errorCode |-> Nil,
   request_id |-> Nil, detail |-> <<>>, data |-> Nil, setCookie |-> "keep"]

NetworkFailure == [NoResponse EXCEPT !.kind = "network"]
UnparsableBody == [NoResponse EXCEPT !.kind = "unparsable"]
NullBody == [NoResponse EXCEPT !.kind = "null"]

SuccessBody(data, setCookie) ==
  [NoResponse EXCEPT !.kind = "object", !.result = "SUCCESS", !.data = data,
                     !.setCookie = setCookie]

ValidationDetail == <<[field |-> "phone", reason |-> "format"]>>

FailBody(code, msg) ==
  [NoResponse EXCEPT !.kind = "object", !.result = "FAIL", !.errorCode = code,
                     !.message = msg, !.request_id = "req-1",
                     !.detail = IF code = "VALIDATION_ERROR" THEN ValidationDetail
                                ELSE <<>>]

\* a body whose result is neither "SUCCESS" nor "FAIL"
OtherBody(msg) ==
  [NoResponse EXCEPT !.kind = "object", !.result = "OTHER", !.message = msg]

Messages == {"", "server message"}

NoOutcome ==
  [kind |-> "none", value |-> Nil, isLoggedIn |-> Nil, errClass |-> Nil,
   message |-> Nil, errorCode |-> Nil, request_id |-> Nil, detail |-> <<>>]

Return(v) == [NoOutcome EXCEPT !.kind = "return", !.value = v]

\* an error object of the given class made with only a message
Throw(class, msg) == [NoOutcome EXCEPT !.kind = "throw", !.errClass = class, !.message = msg]

FetchFailedMsg == "Failed to fetch"
JsonParseMsg == "Unexpected token in JSON"
NullReadMsg == "Cannot read properties of null"

\* JSON values a data field may hold, written as their JSON text
JsonNull == "null"
JsonValues == {JsonNull, "42", "{\"a\":{\"b\":[1]}}"}

\* the data the service documents for its SUCCESS envelope
TypicalData(svc) ==
  CASE svc = "signup" -> "account"
    [] svc = "login" -> "token"
    [] svc = "logout" -> JsonNull
    [] svc = "info" -> "account"
    [] svc = "recipient" -> "recipient"
    [] svc = "generic" -> "data"
    [] OTHER -> "posts"

\* the data values tried for a service: the documented one, a null, and for
\* the generic apiRequest every JSON value
DataOf(svc) ==
  IF svc = "generic" THEN JsonValues \cup {TypicalData(svc)}
  ELSE {TypicalData(svc), JsonNull}

\* what the server may answer to a request; the session cookie decides the
\* authenticated operations, login sets the cookie and logout deletes it
ServerAnswers(f, req) ==
  LET svc == Service(f)
      ok == CASE svc = "signup" -> {SuccessBody(d, "keep") : d \in DataOf(svc)}
              [] svc = "login" -> {SuccessBody(d, "set") : d \in DataOf(svc)}
              [] svc = "logout" -> IF req.cookieAttached
                                   THEN {SuccessBody(d, "delete") : d \in DataOf(svc)}
                                   ELSE {}
              [] svc = "info" -> IF req.cookieAttached
                                 THEN {SuccessBody(d, "keep") : d \in DataOf(svc)}
                                 ELSE {}
              [] OTHER -> {SuccessBody(d, "keep") : d \in DataOf(svc)}
      codes == CASE svc = "signup" -> {"ALREADY_EXISTS", "VALIDATION_ERROR"}
                 [] svc = "login" -> {"INVALID_USER"}
                 [] svc \in {"logout", "info"} ->
                      IF req.cookieAttached THEN {} ELSE {"UNAUTHORIZED"}
                 [] svc = "recipient" -> {"VALIDATION_ERROR"}
                 [] svc = "generic" -> {"INTERNAL_SERVER_ERROR"}
                 [] OTHER -> {"NOT_FOUND"}
  IN ok \cup {FailBody(c, m) : c \in codes, m \in Messages}
        \cup {OtherBody(m) : m \in Messages}
        \cup {NullBody, UnparsableBody}

\* Unwrap that ends in `return result.data || {}`
Unwrap_DefaultsFalsyData(f, body) ==
  CASE body.kind = "network" -> Throw("TypeError", FetchFailedMsg)
    [] body.kind = "unparsable" -> Throw("SyntaxError", JsonParseMsg)
    [] body.kind = "null" -> Throw("TypeError", NullReadMsg)
    [] body.result # "SUCCESS" ->
         Throw("Error", IF body.message # "" THEN body.message
                        ELSE DefaultMessage(f, body.errorCode))
    [] OTHER -> Return(IF Service(f) = "logout" THEN "undefined"
                       ELSE IF body.data = JsonNull THEN "{}" ELSE body.data)

\* Unwrap with the test of result.result left out
Unwrap_NoResultTest(f, body) ==
  CASE body.kind = "network" -> Throw("TypeError", FetchFailedMsg)
    [] body.kind = "unparsable" -> Throw("SyntaxError", JsonParseMsg)
    [] body.kind = "null" -> Throw("TypeError", NullReadMsg)
    [] OTHER -> Return(IF Service(f) = "logout" THEN "undefined" ELSE body.data)

\* Unwrap that throws the fallback text without looking at result.message
Unwrap_IgnoresMessage(f, body) ==
  CASE body.kind = "network" -> Throw("TypeError", FetchFailedMsg)
    [] body.kind = "unparsable" -> Throw("SyntaxError", JsonParseMsg)
    [] body.kind = "null" -> Throw("TypeError", NullReadMsg)
    [] body.result # "SUCCESS" -> Throw("Error", DefaultMessage(f, body.errorCode))
    [] OTHER -> Return(IF Service(f) = "logout" THEN "undefined" ELSE body.data)

\* Unwrap that tests result.result === 'FAIL' instead of !== 'SUCCESS'
Unwrap_ThrowsOnFailOnly(f, body) ==
  CASE body.kind = "network" -> Throw("TypeError", FetchFailedMsg)
    [] body.kind = "unparsable" -> Throw("SyntaxError", JsonParseMsg)
    [] body.kind = "null" -> Throw("TypeError", NullReadMsg)
    [] body.result = "FAIL" ->
         Throw("Error", IF body.message # "" THEN body.message
                        ELSE DefaultMessage(f, body.errorCode))
    [] OTHER -> Return(IF Service(f) = "logout" THEN "undefined" ELSE body.data)

\* Unwrap inside try { ... } catch (e) { throw new Error(e.message) }
Unwrap_WrapsEveryError(f, body) ==
  CASE body.kind = "network" -> Throw("Error", FetchFailedMsg)
    [] body.kind = "unparsable" -> Throw("Error", JsonParseMsg)
    [] body.kind = "null" -> Throw("Error", NullReadMsg)
    [] body.result # "SUCCESS" ->
         Throw("Error", IF body.message # "" THEN body.message
                        ELSE DefaultMessage(f, body.errorCode))
    [] OTHER -> Return(IF Service(f) = "logout" THEN "undefined" ELSE body.data)

\* const result = await response.json();
\* if (result.result !== 'SUCCESS') throw new Error(result.message || '...');
\* return result.data;
Unwrap(f, body) ==
  CASE body.kind = "network" -> Throw("TypeError", FetchFailedMsg)
    [] body.kind = "unparsable" -> Throw("SyntaxError", JsonParseMsg)
    [] body.kind = "null" -> Throw("TypeError", NullReadMsg)
    [] body.result # "SUCCESS" ->
         Throw("Error", IF body.message # "" THEN body.message
                        ELSE DefaultMessage(f, body.errorCode))
    [] OTHER -> Return(IF Service(f) = "logout" THEN "undefined" ELSE body.data)

\* the branch of useAccountInfo that redirects instead of throwing
RedirectsUnauthorized(f, body, o) ==
  /\ f = "useAccountInfo.fetchAccountInfo"
  /\ body.kind = "object" /\ body.result # "SUCCESS"
  /\ body.errorCode = "UNAUTHORIZED" /\ o.redirect

\* Surface with the `throw err` of the hooks' catch blocks left out
Surface_HooksDoNotRethrow(f, body, o, raw) ==
  CASE f = "checkAuth" ->
         IF raw.kind = "return"
         THEN [Return(raw.value) EXCEPT !.isLoggedIn = "true"]
         ELSE [Return("null") EXCEPT !.isLoggedIn = "false"]
    [] f \in HookFns ->
         IF raw.kind = "return" /\ ~RedirectsUnauthorized(f, body, o)
         THEN raw ELSE Return("null")
    [] OTHER -> raw

CallbackFailedMsg == "callback failed"

\* how the try block ends: as the request did (raw), or with the error that
\* onSuccess threw (useLogout calls onSuccess inside its try block)
TryEnd(f, o, raw) ==
  IF f = "useLogout.logout" /\ raw.kind = "return" /\ o.onSuccess = "throws"
  THEN Throw("Error", CallbackFailedMsg)
  ELSE raw

\* what the caller gets from the function, given how its body ended (raw);
\* an onError that throws inside the catch block replaces what the catch
\* block would have returned or rethrown
Surface(f, body, o, raw) ==
  CASE f = "checkAuth" ->
         IF raw.kind = "return"
         THEN [Return(raw.value) EXCEPT !.isLoggedIn = "true"]
         ELSE [Return("null") EXCEPT !.isLoggedIn = "false"]
    [] f = "useAccountInfo.fetchAccountInfo" ->
         IF raw.kind = "return" /\ ~RedirectsUnauthorized(f, body, o) THEN raw
         ELSE IF RedirectsUnauthorized(f, body, o) THEN Return("null")
         ELSE IF o.onError = "throws" THEN Throw("Error", CallbackFailedMsg)
         ELSE Return("null")
    [] f = "useLogout.logout" ->
         IF TryEnd(f, o, raw).kind = "throw" /\ o.onError = "throws"
         THEN Throw("Error", CallbackFailedMsg)
         ELSE TryEnd(f, o, raw)
    [] OTHER -> raw

NoHook == [isLoading |-> FALSE, error |-> Nil, data |-> Nil, post |-> Nil]

\* setIsLoading(true); setError(null);
HookBegin(h) == [h EXCEPT !.isLoading = TRUE, !.error = Nil]

\* HookEnd without the finally block on the path through catch
HookEnd_NoFinallyOnThrow(f, body, o, raw, h) ==
  IF RedirectsUnauthorized(f, body, o) THEN [h EXCEPT !.isLoading = FALSE]
  ELSE IF raw.kind = "return"
       THEN IF f \in {"useNotice.fetchPost", "useFaq.fetchPost"}
            THEN [h EXCEPT !.post = raw.value, !.isLoading = FALSE]
            ELSE IF f = "useLogout.logout" THEN [h EXCEPT !.isLoading = FALSE]
                 ELSE [h EXCEPT !.data = raw.value, !.isLoading = FALSE]
       ELSE [h EXCEPT !.error = raw.message]

\* HookEnd whose catch block also clears the stored result
HookEnd_ClearsResultOnThrow(f, body, o, raw, h) ==
  LET e == TryEnd(f, o, raw)
      h1 == IF RedirectsUnauthorized(f, body, o) THEN h
            ELSE IF e.kind = "return"
                 THEN IF f \in {"useNotice.fetchPost", "useFaq.fetchPost"}
                      THEN [h EXCEPT !.post = e.value]
                      ELSE IF f = "useLogout.logout" THEN h
                           ELSE [h EXCEPT !.data = e.value]
                 ELSE [h EXCEPT !.error = e.message, !.data = Nil, !.post = Nil]
  IN [h1 EXCEPT !.isLoading = FALSE]

\* HookEnd that stores a result only while none is stored yet
HookEnd_KeepsFirstResult(f, body, o, raw, h) ==
  LET h1 == IF RedirectsUnauthorized(f, body, o) THEN h
            ELSE IF raw.kind = "return"
                 THEN IF f \in {"useNotice.fetchPost", "useFaq.fetchPost"}
                      THEN [h EXCEPT !.post = IF h.post = Nil THEN raw.value ELSE h.post]
                      ELSE IF f = "useLogout.logout" THEN h
                           ELSE [h EXCEPT !.data = IF h.data = Nil THEN raw.value
                                                   ELSE h.data]
                 ELSE [h EXCEPT !.error = raw.message]
  IN [h1 EXCEPT !.isLoading = FALSE]

\* the state updates of try / catch / finally once the call has ended
HookEnd(f, body, o, raw, h) ==
  LET e == TryEnd(f, o, raw)
      h1 == IF RedirectsUnauthorized(f, body, o) THEN h
            ELSE IF e.kind = "return"
                 THEN IF f \in {"useNotice.fetchPost", "useFaq.fetchPost"}
                      THEN [h EXCEPT !.post = e.value]
                      ELSE IF f = "useLogout.logout" THEN h
                           ELSE [h EXCEPT !.data = e.value]
                 ELSE [h EXCEPT !.error = e.message]
  IN [h1 EXCEPT !.isLoading = FALSE]

\* Effects with onError called on the redirect path of useAccountInfo too
Effects_OnErrorAlsoOnRedirect(f, body, o, raw) ==
  LET onSuccess == IF o.onSuccess = "none" THEN <<>> ELSE <<"onSuccess">>
      onError == IF o.onError = "none" THEN <<>> ELSE <<"onError">> IN
  CASE f = "useLogout.logout" ->
         IF raw.kind = "return"
         THEN onSuccess \o (IF o.onSuccess = "throws" THEN onError
                            ELSE IF o.redirect THEN <<"redirect">> ELSE <<>>)
         ELSE onError
    [] f = "useAccountInfo.fetchAccountInfo" ->
         IF RedirectsUnauthorized(f, body, o) THEN <<"redirect">> \o onError
         ELSE IF raw.kind = "throw" THEN onError ELSE <<>>
    [] OTHER -> <<>>

\* the callbacks and redirects a call performs when it ends, in order
Effects(f, body, o, raw) ==
  LET onSuccess == IF o.onSuccess = "none" THEN <<>> ELSE <<"onSuccess">>
      onError == IF o.onError = "none" THEN <<>> ELSE <<"onError">> IN
  CASE f = "useLogout.logout" ->
         IF raw.kind = "return"
         THEN onSuccess \o (IF o.onSuccess = "throws" THEN onError
                            ELSE IF o.redirect THEN <<"redirect">> ELSE <<>>)
         ELSE onError
    [] f = "useAccountInfo.fetchAccountInfo" ->
         IF RedirectsUnauthorized(f, body, o) THEN <<"redirect">>
         ELSE IF raw.kind = "throw" THEN onError ELSE <<>>
    [] OTHER -> <<>>

\* sessionSeen: a login had completed, with no logout completed since, when
\* the call was made or when it ended; fetches: the fetch() calls the function
\* has made; by: who invoked it, the caller or the hook's own effect
IdleCall ==
  [fn |-> Nil, pc |-> "idle", phone |-> <<>>, explicit |-> "", request |-> NoRequest,
   response |-> NoResponse, outcome |-> NoOutcome, effects |-> <<>>,
   sessionSeen |-> FALSE, fetches |-> 0, by |-> Nil, args |-> NoArgs]

\* the call in slot c ends with `raw` after the body `body`
Finish(c, body, raw) ==
  LET f == calls[c].fn
      fx == Effects(f, body, opts, raw)
      out == Surface(f, body, opts, raw) IN
  /\ calls' = [calls EXCEPT ![c].pc = "done", ![c].response = body,
                            ![c].outcome = out, ![c].effects = fx,
                            ![c].sessionSeen = (calls[c].sessionSeen \/ session)]
  /\ hook' = IF f \in HookFns THEN HookEnd(f, body, opts, raw, hook) ELSE hook
  /\ location' = IF \E i \in 1..Len(fx) : fx[i] = "redirect" THEN "/login" ELSE location
  /\ session' = IF raw.kind = "return" /\ f \in LoginFns THEN TRUE
                ELSE IF raw.kind = "return" /\ f \in LogoutFns THEN FALSE
                ELSE session

SlotFree(c) == calls[c].pc \in {"idle", "done"}

\* the call in slot c has sent its request and has not ended
InFlight(c) == calls[c].pc \in {"sent", "headers"}

\* the synchronous prefix of f: validation, project id, fetch(...)
\* Begin whose phone check sits inside the try block, after setIsLoading(true)
Begin_ValidatesInsideTry(c, f, phone, explicit, by, args) ==
  LET res == ResolveProjectId(ResolverOf(f), explicit, env)
      fresh == [IdleCall EXCEPT !.fn = f, !.phone = phone, !.explicit = explicit,
                                !.sessionSeen = session, !.by = by, !.args = args] IN
  IF PhoneChecked(f) /\ ~validatePhone(phone)
  THEN /\ calls' = [calls EXCEPT ![c] = [fresh EXCEPT !.pc = "done",
                        !.outcome = Throw("Error", PhoneFormatMsg)]]
       /\ hook' = IF f \in HookFns
                  THEN [hook EXCEPT !.error = PhoneFormatMsg, !.isLoading = FALSE]
                  ELSE hook
       /\ UNCHANGED <<cookie, location, session>>
  ELSE IF ~res.ok
  THEN /\ calls' = [calls EXCEPT ![c] = [fresh EXCEPT !.pc = "done",
                        !.outcome = Throw(res.errClass, res.message)]]
       /\ hook' = IF f \in HookFns
                  THEN [HookBegin(hook) EXCEPT !.error = res.message, !.isLoading = FALSE]
                  ELSE hook
       /\ UNCHANGED <<cookie, location, session>>
  ELSE /\ calls' = [calls EXCEPT ![c] = [fresh EXCEPT !.pc = "sent", !.fetches = 1,
                        !.request = [MkRequest(f, res.value, cookie) EXCEPT
                                       !.body = IF PhoneChecked(f)
                                                THEN RecipientBody(phone, args)
                                                ELSE <<>>]]]
       /\ hook' = IF f \in HookFns THEN HookBegin(hook) ELSE hook
       /\ UNCHANGED <<cookie, location, session>>

Begin(c, f, phone, explicit, by, args) ==
  LET res == ResolveProjectId(ResolverOf(f), explicit, env)
      fresh == [IdleCall EXCEPT !.fn = f, !.phone = phone, !.explicit = explicit,
                                !.sessionSeen = session, !.by = by, !.args = args] IN
  IF PhoneChecked(f) /\ ~validatePhone(phone)
  THEN /\ calls' = [calls EXCEPT ![c] = [fresh EXCEPT !.pc = "done",
                        !.outcome = Throw("Error", PhoneFormatMsg)]]
       /\ hook' = IF f \in HookFns THEN [hook EXCEPT !.error = PhoneFormatMsg] ELSE hook
       /\ UNCHANGED <<cookie, location, session>>
  ELSE IF ~res.ok
  THEN /\ calls' = [calls EXCEPT ![c] = [fresh EXCEPT !.pc = "done",
                        !.outcome = Throw(res.errClass, res.message)]]
       /\ hook' = IF f \in HookFns
                  THEN [HookBegin(hook) EXCEPT !.error = res.message, !.isLoading = FALSE]
                  ELSE hook
       /\ UNCHANGED <<cookie, location, session>>
  ELSE /\ calls' = [calls EXCEPT ![c] = [fresh EXCEPT !.pc = "sent", !.fetches = 1,
                        !.request = [MkRequest(f, res.value, cookie) EXCEPT
                                       !.body = IF PhoneChecked(f)
                                                THEN RecipientBody(phone, args)
                                                ELSE <<>>]]]
       /\ hook' = IF f \in HookFns THEN HookBegin(hook) ELSE hook
       /\ UNCHANGED <<cookie, location, session>>

\* the caller invokes f
Start(c, f, phone, explicit, args) ==
  /\ SlotFree(c)
  /\ HookOf(f) = mounted
  /\ mountEffect # "pending"
  /\ phone = <<>> \/ PhoneChecked(f)
  /\ explicit = "" \/ f = "loginJs"
  /\ args = NoArgs \/ PhoneChecked(f)
  /\ Begin(c, f, phone, explicit, "caller", args)
  /\ UNCHANGED <<env, mounted, opts, mountEffect, cfg, cls, ph, rd>>

\* useEffect(() => { if (enabled) void fetchAccountInfo(); }, ...)
MountEffect ==
  /\ mountEffect = "pending"
  /\ mountEffect' = "ran"
  /\ Begin(1, "useAccountInfo.fetchAccountInfo", <<>>, "", "mount", NoArgs)
  /\ UNCHANGED <<env, mounted, opts, cfg, cls, ph, rd>>

\* a function that calls fetch() a second time when the first one rejects
NetworkFail_RetriesOnce(c) ==
  /\ calls[c].pc \in {"sent", "headers"}
  /\ IF calls[c].pc = "sent" /\ calls[c].fetches = 1
     THEN /\ calls' = [calls EXCEPT ![c].fetches = 2]
          /\ UNCHANGED <<location, hook, session>>
     ELSE Finish(c, NetworkFailure, Unwrap(calls[c].fn, NetworkFailure))
  /\ UNCHANGED <<env, mounted, opts, mountEffect, cookie, cfg, cls, ph, rd>>

\* fetch rejects, or the body stream breaks while response.json() reads it
NetworkFail(c) ==
  /\ calls[c].pc \in {"sent", "headers"}
  /\ Finish(c, NetworkFailure, Unwrap(calls[c].fn, NetworkFailure))
  /\ UNCHANGED <<env, mounted, opts, mountEffect, cookie, cfg, cls, ph, rd>>

\* fetch resolves: the response head has arrived and the user agent has
\* applied its Set-Cookie (only in the credentials: 'include' mode)
Headers(c, body) ==
  /\ calls[c].pc = "sent"
  /\ body \in ServerAnswers(calls[c].fn, calls[c].request)
  /\ calls' = [calls EXCEPT ![c].pc = "headers", ![c].response = body]
  /\ cookie' = IF calls[c].request.credentials = "include" /\ body.setCookie = "set"
               THEN TRUE
               ELSE IF calls[c].request.credentials = "include"
                       /\ body.setCookie = "delete"
                    THEN FALSE ELSE cookie
  /\ UNCHANGED <<env, mounted, opts, mountEffect, location, hook, session, cfg, cls, ph, rd>>

\* response.json() settles and the function runs to its end
Body(c) ==
  /\ calls[c].pc = "headers"
  /\ Finish(c, calls[c].response, Unwrap(calls[c].fn, calls[c].response))
  /\ UNCHANGED <<env, mounted, opts, mountEffect, cookie, cfg, cls, ph, rd>>

\* reset() of the mounted hook
Reset ==
  /\ mounted # "none"
  /\ hook # NoHook
  /\ hook' = NoHook
  /\ UNCHANGED <<env, mounted, opts, mountEffect, cookie, location, calls, session,
                 cfg, cls, ph, rd>>

\* no component that renders useAccountInfo
NoRd == [pc |-> "off", variant |-> Nil, enabled |-> FALSE, onError |-> Nil,
         onErrorId |-> 0, memoDeps |-> 0, fetchId |-> 0, effectDeps |-> 0,
         renders |-> 0, autoRequests |-> 0, inFlight |-> 0, isLoading |-> FALSE]

\* no phone text is being edited
NoPh == [pc |-> "off", impl |-> Nil, input |-> <<>>, prev |-> <<>>, text |-> <<>>,
         applied |-> 0, valid |-> Nil]

NoCfg == [variant |-> Nil, explicit |-> "", env |-> EnvNone, pc |-> "off",
          out |-> Resolved("")]
NoCls ==
  [pc |-> "off", fn |-> Nil, error |-> NoResponse, branch |-> Nil, log |-> <<>>,
   alerts |-> <<>>, toasts |-> <<>>, href |-> "/app", outcome |-> NoOutcome]

\* a callback option: not given, a function that returns, one that throws
Callbacks == {"none", "returns", "throws"}

HookOptions(h) ==
  CASE h = "useAccountInfo" ->
         [enabled : BOOLEAN, redirect : BOOLEAN, onSuccess : {"none"},
          onError : Callbacks]
    [] h = "useLogout" ->
         [enabled : {FALSE}, redirect : BOOLEAN, onSuccess : Callbacks,
          onError : Callbacks]
    [] OTHER -> [enabled : {FALSE}, redirect : {FALSE}, onSuccess : {"none"},
                 onError : {"none"}]

Init ==
  /\ env \in EnvChoices
  /\ mounted \in Hooks \cup {"none"}
  /\ opts \in HookOptions(mounted)
  /\ mountEffect = IF mounted = "useAccountInfo" /\ opts.enabled THEN "pending" ELSE "none"
  /\ cookie \in BOOLEAN
  /\ location = "/app"
  /\ hook = [NoHook EXCEPT !.isLoading = (mounted = "useAccountInfo" /\ opts.enabled)]
  /\ calls = [c \in Slots |-> IdleCall]
  /\ session = cookie
  /\ cfg = NoCfg
  /\ cls = NoCls
  /\ ph = NoPh
  /\ rd = NoRd

\* one caller that awaits each call before it makes the next
Next ==
  \/ \E f \in Fns :
       \E phone \in IF PhoneChecked(f) THEN Phones ELSE {<<>>},
          explicit \in IF f = "loginJs" THEN {"", "pid-arg"} ELSE {""},
          args \in IF PhoneChecked(f) THEN {DefaultArgs} ELSE {NoArgs} :
         Start(1, f, phone, explicit, args)
  \/ MountEffect
  \/ NetworkFail(1)
  \/ \E body \in ServerAnswers(calls[1].fn, calls[1].request) : Headers(1, body)
  \/ Body(1)
  \/ Reset

Spec == Init /\ [][Next]_vars

(***************************************************************************)
(* Overlapping calls of the session functions: a caller that does not      *)
(* await a call before it makes the next, up to MaxInFlight calls at once. *)
(***************************************************************************)
SessionFns == {"login", "logout", "getAccountInfo"}

InitOverlap ==
  /\ env = EnvNode
  /\ mounted = "none"
  /\ opts \in HookOptions(mounted)
  /\ mountEffect = "none"
  /\ cookie \in BOOLEAN
  /\ location = "/app"
  /\ hook = NoHook
  /\ calls = [c \in Slots |-> IdleCall]
  /\ session = cookie
  /\ cfg = NoCfg
  /\ cls = NoCls
  /\ ph = NoPh
  /\ rd = NoRd

\* a new call takes the lowest slot that is not in flight
StartOverlap(c, f) ==
  /\ \A d \in 1..(c - 1) : ~SlotFree(d)
  /\ Start(c, f, <<>>, "", NoArgs)

\* the answers tried for overlapping calls: SUCCESS, and FAIL with a message
OverlapAnswers(c) ==
  {body \in ServerAnswers(calls[c].fn, calls[c].request) :
     body.kind = "object"
       /\ \/ body.result = "SUCCESS" /\ body.data = TypicalData(Service(calls[c].fn))
          \/ body.result = "FAIL" /\ body.message # ""}

NextOverlap ==
  \/ \E c \in Slots, f \in SessionFns : StartOverlap(c, f)
  \/ \E c \in Slots : NetworkFail(c)
  \/ \E c \in Slots : \E body \in OverlapAnswers(c) : Headers(c, body)
  \/ \E c \in Slots : Body(c)

SpecOverlap == InitOverlap /\ [][NextOverlap]_vars

(***************************************************************************)
(* Overlapping actions of one mounted hook instance: the component calls   *)
(* an action again before the earlier call has settled.                    *)
(***************************************************************************)
InitHooks ==
  /\ env \in {EnvNone, EnvCra}
  /\ mounted \in Hooks
  /\ opts \in HookOptions(mounted)
  /\ mountEffect = IF mounted = "useAccountInfo" /\ opts.enabled THEN "pending" ELSE "none"
  /\ cookie \in BOOLEAN
  /\ location = "/app"
  /\ hook = [NoHook EXCEPT !.isLoading = (mounted = "useAccountInfo" /\ opts.enabled)]
  /\ calls = [c \in Slots |-> IdleCall]
  /\ session = cookie
  /\ cfg = NoCfg
  /\ cls = NoCls
  /\ ph = NoPh
  /\ rd = NoRd

\* the answers tried for overlapping hook actions: SUCCESS with either data
\* value, and FAIL with a message
HookAnswers(c) ==
  {body \in ServerAnswers(calls[c].fn, calls[c].request) :
     body.kind = "object"
       /\ \/ body.result = "SUCCESS"
          \/ body.result = "FAIL" /\ body.message # ""}

NextHooks ==
  \/ \E c \in Slots, f \in HookFns :
       \E phone \in IF PhoneChecked(f) THEN {PhoneValid, PhoneShort} ELSE {<<>>} :
         /\ \A d \in 1..(c - 1) : ~SlotFree(d)
         /\ Start(c, f, phone, "", IF PhoneChecked(f) THEN DefaultArgs ELSE NoArgs)
  \/ MountEffect
  \/ \E c \in Slots : NetworkFail(c)
  \/ \E c \in Slots : \E body \in HookAnswers(c) : Headers(c, body)
  \/ \E c \in Slots : Body(c)
  \/ Reset

SpecHooks == InitHooks /\ [][NextHooks]_vars

(***************************************************************************)
(* Recipient registration with every shape of the optional arguments.      *)
(***************************************************************************)
RecipientFns == {"registerRecipient", "registerRecipientJs", "useRecipient.register"}

InitRecipient ==
  /\ env \in {EnvNode, EnvCra}
  /\ mounted \in {"none", "useRecipient"}
  /\ opts \in HookOptions(mounted)
  /\ mountEffect = "none"
  /\ cookie = FALSE
  /\ location = "/app"
  /\ hook = NoHook
  /\ calls = [c \in Slots |-> IdleCall]
  /\ session = FALSE
  /\ cfg = NoCfg
  /\ cls = NoCls
  /\ ph = NoPh
  /\ rd = NoRd

NextRecipient ==
  \/ \E f \in RecipientFns, phone \in {PhoneValid, PhoneValid2, PhoneShort},
          args \in RecipientArgs : Start(1, f, phone, "", args)
  \/ NetworkFail(1)
  \/ \E body \in HookAnswers(1) : Headers(1, body)
  \/ Body(1)

SpecRecipient == InitRecipient /\ [][NextRecipient]_vars

(***************************************************************************)
(* Project-id resolution on its own: one variant, one environment, one     *)
(* call.                                                                   *)
(***************************************************************************)
GetProjectIdVariants == {"ts", "js", "react", "doc"}

InitConfig ==
  /\ env = EnvNone
  /\ mounted = "none"
  /\ opts \in HookOptions(mounted)
  /\ mountEffect = "none"
  /\ cookie = FALSE
  /\ location = "/app"
  /\ hook = NoHook
  /\ calls = [c \in Slots |-> IdleCall]
  /\ session = FALSE
  /\ cfg \in {[variant |-> v, explicit |-> x, env |-> e, pc |-> "ready",
               out |-> Resolved("")] :
                v \in GetProjectIdVariants \cup {"explicit"},
                x \in {"", "pid-arg"}, e \in AllEnvs}
  /\ cfg.explicit = "" \/ cfg.variant = "explicit"
  /\ cls = NoCls
  /\ ph = NoPh
  /\ rd = NoRd

\* getProjectId() / the projectId argument is evaluated
Resolve ==
  /\ cfg.pc = "ready"
  /\ cfg' = [cfg EXCEPT !.pc = "done",
                        !.out = ResolveProjectId(cfg.variant, cfg.explicit, cfg.env)]
  /\ UNCHANGED <<sdkVars, cls, ph, rd>>

NextConfig == Resolve

SpecConfig == InitConfig /\ [][NextConfig]_vars

(***************************************************************************)
(* The error handling of the error-codes document: handleApiCall and       *)
(* handleError.                                                            *)
(***************************************************************************)
\* the ErrorCode union with its last member left out
ErrorCodes_WithoutLast ==
  {"INVALID_USER", "UNAUTHORIZED", "INVALID_TOKEN", "TOKEN_EXPIRED",
   "NOT_FOUND", "BAD_REQUEST", "INVALID_REQUEST", "VALIDATION_ERROR",
   "ALREADY_EXISTS", "ALREADY_COMPLETED", "EXPIRED",
   "RATE_LIMIT_EXCEEDED", "MAX_ATTEMPTS_EXCEEDED", "INVALID_CODE",
   "INTERNAL_SERVER_ERROR", "NOT_IMPLEMENTED", "EXTERNAL_SERVER_ERROR",
   "WEBHOOK_ERROR",
   "UNSUPPORTED_VENDOR", "UNSUPPORTED_METHOD"}

ErrorCodes ==
  {"INVALID_USER", "UNAUTHORIZED", "INVALID_TOKEN", "TOKEN_EXPIRED",
   "NOT_FOUND", "BAD_REQUEST", "INVALID_REQUEST", "VALIDATION_ERROR",
   "ALREADY_EXISTS", "ALREADY_COMPLETED", "EXPIRED",
   "RATE_LIMIT_EXCEEDED", "MAX_ATTEMPTS_EXCEEDED", "INVALID_CODE",
   "INTERNAL_SERVER_ERROR", "NOT_IMPLEMENTED", "EXTERNAL_SERVER_ERROR",
   "WEBHOOK_ERROR",
   "UNSUPPORTED_VENDOR", "UNSUPPORTED_METHOD", "FCM_SUBSCRIBE_FAILED"}

\* the group a code is listed under in the ErrorCode union and in the tables
\* of the error-codes document
ErrorCategory(code) ==
  CASE code \in {"INVALID_USER", "UNAUTHORIZED", "INVALID_TOKEN", "TOKEN_EXPIRED"}
         -> "auth"
    [] code \in {"NOT_FOUND", "BAD_REQUEST", "INVALID_REQUEST", "VALIDATION_ERROR"}
         -> "request"
    [] code \in {"ALREADY_EXISTS", "ALREADY_COMPLETED", "EXPIRED"} -> "state"
    [] code \in {"RATE_LIMIT_EXCEEDED", "MAX_ATTEMPTS_EXCEEDED", "INVALID_CODE"}
         -> "limit"
    [] code \in {"INTERNAL_SERVER_ERROR", "NOT_IMPLEMENTED", "EXTERNAL_SERVER_ERROR",
                 "WEBHOOK_ERROR"} -> "server"
    [] OTHER -> "feature"

\* an ErrorResponse as the server sends it
ErrorEnvelope(code, msg, rid, detail) ==
  [NoResponse EXCEPT !.kind = "object", !.result = "FAIL", !.errorCode = code,
                     !.message = msg, !.request_id = rid, !.detail = detail]

\* a detail array with two entries
ValidationDetail2 ==
  <<[field |-> "user_id", reason |-> "too short"],
    [field |-> "phone", reason |-> "format"]>>

ErrorEnvelopes ==
  {ErrorEnvelope(code, msg, rid, detail) :
     code \in ErrorCodes, msg \in {"server message"}, rid \in {Nil, "req-1"},
     detail \in {<<>>, ValidationDetail, ValidationDetail2}}

\* the switch of handleError with `case 'INVALID_CODE':` left out
HandleErrorBranch_NoInvalidCode(code) ==
  CASE code = "INVALID_USER" -> "INVALID_USER"
    [] code \in {"UNAUTHORIZED", "INVALID_TOKEN", "TOKEN_EXPIRED"} -> "UNAUTHORIZED"
    [] code = "VALIDATION_ERROR" -> "VALIDATION_ERROR"
    [] code = "ALREADY_EXISTS" -> "ALREADY_EXISTS"
    [] code = "EXPIRED" -> "EXPIRED"
    [] code \in {"RATE_LIMIT_EXCEEDED", "MAX_ATTEMPTS_EXCEEDED"} -> "RATE_LIMIT_EXCEEDED"
    [] code = "NOT_IMPLEMENTED" -> "NOT_IMPLEMENTED"
    [] OTHER -> "default"

\* switch (error.errorCode): the branch taken, named by its first case label
HandleErrorBranch(code) ==
  CASE code = "INVALID_USER" -> "INVALID_USER"
    [] code \in {"UNAUTHORIZED", "INVALID_TOKEN", "TOKEN_EXPIRED"} -> "UNAUTHORIZED"
    [] code = "VALIDATION_ERROR" -> "VALIDATION_ERROR"
    [] code = "ALREADY_EXISTS" -> "ALREADY_EXISTS"
    [] code \in {"EXPIRED", "INVALID_CODE"} -> "EXPIRED"
    [] code \in {"RATE_LIMIT_EXCEEDED", "MAX_ATTEMPTS_EXCEEDED"} -> "RATE_LIMIT_EXCEEDED"
    [] code = "NOT_IMPLEMENTED" -> "NOT_IMPLEMENTED"
    [] OTHER -> "default"

\* error.detail.map(d => `${d.field}: ${d.reason}`), shown in one alert;
\* alert(error.message) when there is no detail
handleValidationError(error) ==
  IF Len(error.detail) > 0
  THEN <<[i \in 1..Len(error.detail) |->
            error.detail[i].field \o ": " \o error.detail[i].reason]>>
  ELSE <<<<error.message>>>>

\* the alerts of handleError, each a sequence of lines
HandleErrorAlerts(error) ==
  LET b == HandleErrorBranch(error.errorCode) IN
  CASE b = "INVALID_USER" -> <<<<"check id or password">>>>
    [] b = "UNAUTHORIZED" -> <<>>
    [] b = "VALIDATION_ERROR" -> handleValidationError(error)
    [] b = "ALREADY_EXISTS" -> <<<<"already in use">>>>
    [] b = "EXPIRED" -> <<<<"verification expired, try again">>>>
    [] b = "RATE_LIMIT_EXCEEDED" -> <<<<"too many requests">>>>
    [] b = "NOT_IMPLEMENTED" -> <<<<"not supported yet">>>>
    [] OTHER -> <<<<"temporary error, try again later">>>>

\* cls after handleError(error)
HandledError(error) ==
  [NoCls EXCEPT !.pc = "done", !.error = error,
              !.branch = HandleErrorBranch(error.errorCode),
              !.log = IF error.request_id # Nil
                      THEN <<"[" \o error.request_id \o "] " \o error.errorCode
                               \o ": " \o error.message>>
                      ELSE <<>>,
              !.alerts = HandleErrorAlerts(error),
              !.href = IF HandleErrorBranch(error.errorCode) = "UNAUTHORIZED"
                       THEN "/login" ELSE "/app"]

InitClassify ==
  /\ env = EnvNone
  /\ mounted = "none"
  /\ opts \in HookOptions(mounted)
  /\ mountEffect = "none"
  /\ cookie = FALSE
  /\ location = "/app"
  /\ hook = NoHook
  /\ calls = [c \in Slots |-> IdleCall]
  /\ session = FALSE
  /\ cfg = NoCfg
  /\ cls = [NoCls EXCEPT !.pc = "ready"]
  /\ ph = NoPh
  /\ rd = NoRd

\* handleError(error)
HandleError(error) ==
  /\ cls.pc # "off"
  /\ cls' = [HandledError(error) EXCEPT !.fn = "handleError", !.outcome = Return("undefined")]
  /\ UNCHANGED <<sdkVars, cfg, ph, rd>>

\* handleApiCall(apiCall) where apiCall resolves to `result`
HandleApiCall(result) ==
  /\ cls.pc # "off"
  /\ cls' = IF result.result = "SUCCESS"
            THEN [NoCls EXCEPT !.pc = "done", !.fn = "handleApiCall", !.error = result,
                               !.outcome = Return(result.data)]
            ELSE [HandledError(result) EXCEPT !.fn = "handleApiCall",
                                              !.outcome = Throw("Error", result.message)]
  /\ UNCHANGED <<sdkVars, cfg, ph, rd>>

\* a thrown Error, and a thrown value that is neither an envelope nor an Error
ThrownError == [NoResponse EXCEPT !.kind = "Error", !.message = "thrown message"]
ThrownOther == [NoResponse EXCEPT !.kind = "other"]

\* useApiError's handleError with the early `return` after the detail toast
\* left out
UseApiErrorToasts_NoEarlyReturn(error) ==
  IF error.kind = "object" /\ error.result = "FAIL"
  THEN (IF error.errorCode = "VALIDATION_ERROR" /\ Len(error.detail) > 0
        THEN <<error.detail[1].reason>> ELSE <<>>) \o <<error.message>>
  ELSE IF error.kind = "Error" THEN <<error.message>>
  ELSE <<"unknown error">>

\* the toasts of useApiError's handleError
UseApiErrorToasts(error) ==
  IF error.kind = "object" /\ error.result = "FAIL"
  THEN IF error.errorCode = "VALIDATION_ERROR" /\ Len(error.detail) > 0
       THEN <<error.detail[1].reason>>
       ELSE <<error.message>>
  ELSE IF error.kind = "Error" THEN <<error.message>>
  ELSE <<"unknown error">>

\* handleError(error) of useApiError
UseApiErrorHandle(error) ==
  /\ cls.pc # "off"
  /\ cls' = [NoCls EXCEPT !.pc = "done", !.fn = "useApiError.handleError",
                          !.error = error,
                          !.log = IF error.kind = "object" /\ error.result = "FAIL"
                                  THEN <<"[API Error] "
                                          \o (IF error.request_id # Nil
                                              THEN error.request_id ELSE "N/A")
                                          \o ": " \o error.errorCode>>
                                  ELSE <<>>,
                          !.toasts = UseApiErrorToasts(error),
                          !.outcome = Return("undefined")]
  /\ UNCHANGED <<sdkVars, cfg, ph, rd>>

NextClassify ==
  \/ \E error \in ErrorEnvelopes : HandleError(error)
  \/ \E error \in ErrorEnvelopes \cup {ThrownError, ThrownOther} :
        UseApiErrorHandle(error)
  \/ \E result \in ErrorEnvelopes \cup {SuccessBody("data", "keep")} :
        HandleApiCall(result)

SpecClassify == InitClassify /\ [][NextClassify]_vars

(***************************************************************************)
(* Phone text: formatPhone and validatePhone applied to what a user types. *)
(* A string is the sequence of its characters.                             *)
(***************************************************************************)
\* the longest run of digits tried
MaxDigits == 12

DigitChar == <<"0", "1", "2", "3", "4", "5", "6", "7", "8", "9">>

\* value.replace(/[^\d]/g, '') and phone.replace(/\D/g, '')
RECURSIVE StripNonDigits(_)
StripNonDigits(s) ==
  IF s = <<>> THEN <<>>
  ELSE (IF Head(s) \in Digits THEN <<Head(s)>> ELSE <<>>) \o StripNonDigits(Tail(s))

\* s.slice(a, b) for 0 <= a <= b
Slice(s, a, b) == SubSeq(s, a + 1, IF b < Len(s) THEN b ELSE Len(s))

\* formatPhone of baas.ts with the non-digits left in
formatPhone_NoStrip(value) ==
  LET numbers == value IN
  IF Len(numbers) <= 3 THEN numbers
  ELSE IF Len(numbers) <= 7
       THEN Slice(numbers, 0, 3) \o <<"-">> \o Slice(numbers, 3, Len(numbers))
       ELSE Slice(numbers, 0, 3) \o <<"-">> \o Slice(numbers, 3, 7) \o <<"-">>
              \o Slice(numbers, 7, 11)

\* formatPhone of baas.ts, recipient.ts, useRecipient.tsx and the JS copies
formatPhone(value) ==
  LET numbers == StripNonDigits(value) IN
  IF Len(numbers) <= 3 THEN numbers
  ELSE IF Len(numbers) <= 7
       THEN Slice(numbers, 0, 3) \o <<"-">> \o Slice(numbers, 3, Len(numbers))
       ELSE Slice(numbers, 0, 3) \o <<"-">> \o Slice(numbers, 3, 7) \o <<"-">>
              \o Slice(numbers, 7, 11)

\* formatPhone of react/config.ts with the 11-digit case left out
formatPhoneConfig_NoElevenCase(phone) ==
  LET cleaned == StripNonDigits(phone) IN
  IF Len(cleaned) = 10
  THEN Slice(cleaned, 0, 3) \o <<"-">> \o Slice(cleaned, 3, 6) \o <<"-">>
         \o Slice(cleaned, 6, 10)
  ELSE phone

\* formatPhone of react/config.ts
formatPhoneConfig(phone) ==
  LET cleaned == StripNonDigits(phone) IN
  IF Len(cleaned) = 11
  THEN Slice(cleaned, 0, 3) \o <<"-">> \o Slice(cleaned, 3, 7) \o <<"-">>
         \o Slice(cleaned, 7, 11)
  ELSE IF Len(cleaned) = 10
       THEN Slice(cleaned, 0, 3) \o <<"-">> \o Slice(cleaned, 3, 6) \o <<"-">>
              \o Slice(cleaned, 6, 10)
       ELSE phone

FormatImpls == {"baas.ts", "config.ts"}

FormatWith(impl, text) ==
  IF impl = "baas.ts" THEN formatPhone(text) ELSE formatPhoneConfig(text)

\* n digits: the three of `head`, then 1 2 3 4 5 6 7 8 9 0 1 ...
DigitRun(head, n) ==
  [i \in 1..n |-> IF i <= 3 THEN head[i] ELSE DigitChar[((i - 3) % 10) + 1]]

\* s with the character ch put in after its first k characters
InsertAt(s, k, ch) == SubSeq(s, 1, k) \o <<ch>> \o SubSeq(s, k + 1, Len(s))

DigitRuns ==
  {DigitRun(head, n) : head \in {<<"0", "1", "0">>, <<"0", "1", "1">>},
                       n \in 0..MaxDigits}

\* what a user may have typed: digit runs, digit runs with one other
\* character somewhere, and the phones of the calls above
PhoneInputs ==
  Phones \cup DigitRuns
    \cup UNION {{InsertAt(s, k, ch) : k \in 0..Len(s), ch \in {"-", " ", "a"}} :
                 s \in DigitRuns}

InitPhone ==
  /\ env = EnvNone
  /\ mounted = "none"
  /\ opts \in HookOptions(mounted)
  /\ mountEffect = "none"
  /\ cookie = FALSE
  /\ location = "/app"
  /\ hook = NoHook
  /\ calls = [c \in Slots |-> IdleCall]
  /\ session = FALSE
  /\ cfg = NoCfg
  /\ cls = NoCls
  /\ \E impl \in FormatImpls, input \in PhoneInputs :
       ph = [NoPh EXCEPT !.pc = "typed", !.impl = impl, !.input = input,
                         !.text = input]
  /\ rd = NoRd

\* setPhone(formatPhone(phone))
FormatPhone ==
  /\ ph.pc \in {"typed", "formatted"}
  /\ ph.applied < 2
  /\ ph' = [ph EXCEPT !.pc = "formatted", !.prev = ph.text,
                      !.text = FormatWith(ph.impl, ph.text),
                      !.applied = ph.applied + 1]
  /\ UNCHANGED <<sdkVars, cfg, cls, rd>>

\* validatePhone(phone)
ValidatePhone ==
  /\ ph.pc \in {"typed", "formatted"}
  /\ ph' = [ph EXCEPT !.pc = "validated", !.valid = validatePhone(ph.text)]
  /\ UNCHANGED <<sdkVars, cfg, cls, rd>>

NextPhone == FormatPhone \/ ValidatePhone

SpecPhone == InitPhone /\ [][NextPhone]_vars

(***************************************************************************)
(* Renders of a component that calls useAccountInfo: useCallback keeps the *)
(* fetchAccountInfo of the last render while its dependencies are the same *)
(* values, and the effect [enabled, fetchAccountInfo] runs after the first *)
(* render and after every render that changed one of the two.              *)
(***************************************************************************)
\* renders tried for one mounted component
MaxRenders == 5

\* "ref": onError is kept in a ref, dependencies [redirectOnUnauthorized];
\* "deps": dependencies [redirectOnUnauthorized, onError]
AccountInfoVariants == {"ref", "deps"}

\* the parent passes the same onError function every render, or a new one
OnErrorProps == {"stable", "fresh"}

InitRender ==
  /\ env = EnvNone
  /\ mounted = "none"
  /\ opts \in HookOptions(mounted)
  /\ mountEffect = "none"
  /\ cookie = FALSE
  /\ location = "/app"
  /\ hook = NoHook
  /\ calls = [c \in Slots |-> IdleCall]
  /\ session = FALSE
  /\ cfg = NoCfg
  /\ cls = NoCls
  /\ ph = NoPh
  /\ \E v \in AccountInfoVariants, e \in BOOLEAN, o \in OnErrorProps :
       rd = [NoRd EXCEPT !.pc = "unmounted", !.variant = v, !.enabled = e,
                         !.onError = o, !.isLoading = e]

\* the component function runs: useCallback(fetchAccountInfo, deps)
Render ==
  /\ rd.pc \in {"unmounted", "idle"}
  /\ rd.renders < MaxRenders
  /\ LET id == IF rd.onError = "fresh" \/ rd.pc = "unmounted"
               THEN rd.onErrorId + 1 ELSE rd.onErrorId
         changed == rd.pc = "unmounted" \/ (rd.variant = "deps" /\ id # rd.memoDeps) IN
     rd' = [rd EXCEPT !.pc = "commit", !.renders = rd.renders + 1,
                      !.onErrorId = id,
                      !.memoDeps = IF changed THEN id ELSE rd.memoDeps,
                      !.fetchId = IF changed THEN rd.fetchId + 1 ELSE rd.fetchId]
  /\ UNCHANGED <<sdkVars, cfg, cls, ph>>

\* useEffect(() => { if (enabled) fetchAccountInfo(); }, [enabled, fetchAccountInfo])
RunEffect ==
  /\ rd.pc = "commit"
  /\ LET runs == rd.effectDeps # rd.fetchId IN
     rd' = [rd EXCEPT !.pc = "idle", !.effectDeps = rd.fetchId,
                      !.autoRequests = IF runs /\ rd.enabled THEN rd.autoRequests + 1
                                       ELSE rd.autoRequests,
                      !.inFlight = IF runs /\ rd.enabled THEN rd.inFlight + 1
                                   ELSE rd.inFlight,
                      !.isLoading = IF runs /\ rd.enabled THEN TRUE ELSE rd.isLoading]
  /\ UNCHANGED <<sdkVars, cfg, cls, ph>>

\* an automatic request settles: finally { setIsLoading(false) }
SettleAuto ==
  /\ rd.pc = "idle"
  /\ rd.inFlight > 0
  /\ rd' = [rd EXCEPT !.inFlight = rd.inFlight - 1, !.isLoading = FALSE]
  /\ UNCHANGED <<sdkVars, cfg, cls, ph>>

NextRender == Render \/ RunEffect \/ SettleAuto

SpecRender == InitRender /\ [][NextRender]_vars

(***************************************************************************)
(* Claims checked under Spec.                                              *)
(***************************************************************************)

\* the phones of Phones that have the shape 010-dddd-dddd
WellFormedPhones == {PhoneValid, PhoneValid2}

\* C1: registerRecipient and useRecipient.register, called with a phone that
\* is not of the shape 010-dddd-dddd, end at once with the phone-format error
\* and have issued no HTTP request, whatever the environment and the jar.
C1_InvalidPhoneFailsLocally ==
  \A c \in Slots :
    (calls[c].pc # "idle" /\ PhoneChecked(calls[c].fn)
       /\ calls[c].phone \notin WellFormedPhones)
    => /\ calls[c].pc = "done"
       /\ ~calls[c].request.sent
       /\ calls[c].response.kind = "none"
       /\ calls[c].outcome = Throw("Error", PhoneFormatMsg)

C1_Witness ==
  \E c \in Slots :
    /\ calls[c].fn \in {"registerRecipient", "useRecipient.register"}
    /\ calls[c].phone = PhoneShort
    /\ calls[c].pc = "done"
    /\ calls[c].outcome.message = PhoneFormatMsg
    /\ ResolveProjectId(ResolverOf(calls[c].fn), "", env).ok

\* C2: every HTTP request issued by an exposed function is sent with
\* credentials: 'include'.
C2_AllRequestsCredentialed ==
  \A c \in Slots : calls[c].request.sent => calls[c].request.credentials = "include"

\* the functions whose catch block ends in a return instead of a throw
Swallowing == {"checkAuth", "useAccountInfo.fetchAccountInfo"}

\* the callbacks given to the mounted hook return normally; an error thrown
\* by onSuccess or onError is the caller's own and reaches the caller in place
\* of what the hook action would have returned or thrown
CallbacksReturn == opts.onSuccess # "throws" /\ opts.onError # "throws"

\* the call in slot c has ended and it did not succeed: it ended before any
\* request, or fetch / response.json() rejected, or the body is not a SUCCESS
\* envelope
CallFailed(c) ==
  /\ calls[c].pc = "done"
  /\ \/ ~calls[c].request.sent
     \/ calls[c].response.kind \in {"network", "unparsable", "null"}
     \/ calls[c].response.kind = "object" /\ calls[c].response.result # "SUCCESS"

GotFail(c) ==
  /\ calls[c].pc = "done"
  /\ calls[c].response.kind = "object" /\ calls[c].response.result = "FAIL"

GotOtherResult(c) ==
  /\ calls[c].pc = "done"
  /\ calls[c].response.kind = "object"
  /\ calls[c].response.result \notin {"SUCCESS", "FAIL"}

\* result.message || fallback, as the caller of slot c's function reads it
MessageOrFallback(c) ==
  IF calls[c].response.message # "" THEN calls[c].response.message
  ELSE IF calls[c].fn = "apiRequest"
       THEN "API Error: " \o (IF calls[c].response.errorCode = Nil THEN "undefined"
                               ELSE calls[c].response.errorCode)
       ELSE DefaultMessage(calls[c].fn, Nil)

OutcomeFor(c, body) ==
  Surface(calls[c].fn, body, opts, Unwrap(calls[c].fn, body))

ErrorCodesSeen == {"ALREADY_EXISTS", "VALIDATION_ERROR", "INVALID_USER", "UNAUTHORIZED",
                   "NOT_FOUND", "INTERNAL_SERVER_ERROR"}

AuthenticatedSuccess(c) ==
  /\ calls[c].pc = "done"
  /\ calls[c].fn \in {"getAccountInfo", "logout"}
  /\ calls[c].outcome.kind = "return"

\* C3 (as stated): getAccountInfo and logout return successfully only in a
\* state where a login has completed successfully and no logout has completed
\* successfully since; in every other state, a login still in flight
\* included, they fail.
C3_SuccessOnlyAfterLoginCompleted ==
  \A c \in Slots :
    AuthenticatedSuccess(c) => calls[c].sessionSeen

\* C3 (amended): getAccountInfo and logout return successfully only when the
\* session cookie was in the user agent's jar at the moment the request was
\* sent, that is after the response head of a successful login has arrived
\* (the login call itself may still be in flight) and with no logout response
\* that deletes the cookie arrived since; a call sent without the cookie fails.
C3_SuccessOnlyWithCookieAtSend ==
  \A c \in Slots :
    (calls[c].pc = "done" /\ calls[c].fn \in {"getAccountInfo", "logout"}) =>
      /\ calls[c].outcome.kind = "return" => calls[c].request.cookieAttached
      /\ ~calls[c].request.cookieAttached => calls[c].outcome.kind = "throw"

C3_Witness ==
  \E c, d \in Slots :
    /\ AuthenticatedSuccess(c)
    /\ calls[c].fn = "getAccountInfo"
    /\ calls[c].request.cookieAttached
    /\ ~calls[c].sessionSeen
    /\ calls[d].fn = "login" /\ calls[d].pc = "headers"

(***************************************************************************)
(* Claims checked under SpecConfig.                                        *)
(***************************************************************************)

\* the first non-empty string of vals, "" when there is none
RECURSIVE FirstNonEmpty(_)
FirstNonEmpty(vals) ==
  IF vals = <<>> THEN ""
  ELSE IF Head(vals) # "" THEN Head(vals) ELSE FirstNonEmpty(Tail(vals))

\* the sources of cfg in the claimed order, and without the leading ones
FiveSources ==
  <<cfg.explicit, cfg.env.BAAS_PROJECT_ID, cfg.env.REACT_APP_BAAS_PROJECT_ID,
    cfg.env.NEXT_PUBLIC_BAAS_PROJECT_ID, cfg.env.VITE_BAAS_PROJECT_ID>>
FourSources == Tail(FiveSources)
ThreeSources == Tail(FourSources)

\* variants that read process.env without a typeof guard
Unguarded == {"ts", "react", "doc"}

ClaimedKind(code) ==
  CASE code \in {"INVALID_USER", "UNAUTHORIZED", "INVALID_TOKEN", "TOKEN_EXPIRED"}
         -> "AuthError"
    [] code \in {"VALIDATION_ERROR", "INVALID_REQUEST", "BAD_REQUEST", "INVALID_CODE"}
         -> "ValidationError"
    [] code \in {"ALREADY_EXISTS", "ALREADY_COMPLETED"} -> "ConflictError"
    [] code = "EXPIRED" -> "ExpiredError"
    [] code \in {"RATE_LIMIT_EXCEEDED", "MAX_ATTEMPTS_EXCEEDED"} -> "RateLimitError"
    [] code = "NOT_FOUND" -> "NotFoundError"
    [] code \in {"INTERNAL_SERVER_ERROR", "NOT_IMPLEMENTED", "EXTERNAL_SERVER_ERROR",
                 "WEBHOOK_ERROR", "UNSUPPORTED_VENDOR", "UNSUPPORTED_METHOD",
                 "FCM_SUBSCRIBE_FAILED"} -> "ServerError"
    [] OTHER -> "none"

\* the branches of handleError with the codes that take them
BranchCodes ==
  [INVALID_USER |-> {"INVALID_USER"},
   UNAUTHORIZED |-> {"UNAUTHORIZED", "INVALID_TOKEN", "TOKEN_EXPIRED"},
   VALIDATION_ERROR |-> {"VALIDATION_ERROR"},
   ALREADY_EXISTS |-> {"ALREADY_EXISTS"},
   EXPIRED |-> {"EXPIRED", "INVALID_CODE"},
   RATE_LIMIT_EXCEEDED |-> {"RATE_LIMIT_EXCEEDED", "MAX_ATTEMPTS_EXCEEDED"},
   NOT_IMPLEMENTED |-> {"NOT_IMPLEMENTED"},
   default |-> {"INTERNAL_SERVER_ERROR", "EXTERNAL_SERVER_ERROR", "WEBHOOK_ERROR",
                "NOT_FOUND", "BAD_REQUEST", "INVALID_REQUEST", "ALREADY_COMPLETED",
                "UNSUPPORTED_VENDOR", "UNSUPPORTED_METHOD", "FCM_SUBSCRIBE_FAILED"}]

Classified ==
  /\ cls.pc = "done" /\ cls.error.result = "FAIL"
  /\ cls.fn \in {"handleError", "handleApiCall"}

CategoriesOfCodes == {ErrorCategory(code) : code \in ErrorCodes}

GotSuccess(c) ==
  /\ calls[c].pc = "done"
  /\ calls[c].response.kind = "object" /\ calls[c].response.result = "SUCCESS"

FailsBeforeSend(c) ==
  \/ PhoneChecked(calls[c].fn) /\ ~validatePhone(calls[c].phone)
  \/ ~ResolveProjectId(ResolverOf(calls[c].fn), calls[c].explicit, env).ok

TableEndpoint(f) ==
  CASE Service(f) = "signup" -> <<"POST", "/account/signup">>
    [] Service(f) = "login" -> <<"POST", "/account/login">>
    [] Service(f) = "logout" -> <<"POST", "/account/logout">>
    [] Service(f) = "info" -> <<"GET", "/account/info">>
    [] Service(f) = "recipient" -> <<"POST", "/recipient/{projectId}">>
    [] f \in {"getNoticePosts", "useNotice.fetchPosts"}
         -> <<"GET", "/public/board/notice/{projectId}/posts">>
    [] f \in {"getNoticePost", "useNotice.fetchPost"}
         -> <<"GET", "/public/board/notice/{projectId}/posts/{postId}">>
    [] f \in {"getFaqPosts", "useFaq.fetchPosts"}
         -> <<"GET", "/public/board/faq/{projectId}/posts">>
    [] OTHER -> <<"GET", "/public/board/faq/{projectId}/posts/{postId}">>

\* C17: every request of a domain function carries the method and the path
\* that the endpoint table gives for it, in every template variant.
C17_RequestsFollowEndpointTable ==
  \A c \in Slots :
    (calls[c].request.sent /\ Service(calls[c].fn) # "generic") =>
      <<calls[c].request.method, calls[c].request.endpoint>>
        = TableEndpoint(calls[c].fn)

\* the sequence s holds the entry x
Has(s, x) == \E i \in 1..Len(s) : s[i] = x

RefetchEnded(c) ==
  calls[c].pc = "done" /\ calls[c].fn = "useAccountInfo.fetchAccountInfo"

\* C22 (as stated): refetch never rejects; a failure resolves to null and
\* calls a given onError once, except that UNAUTHORIZED with
\* redirectOnUnauthorized set redirects, resolves to null and calls no onError.
C22_RefetchNeverRejects ==
  \A c \in Slots :
    RefetchEnded(c) =>
      /\ calls[c].outcome.kind = "return"
      /\ CallFailed(c) =>
           /\ calls[c].outcome.value = "null"
           /\ calls[c].effects =
                IF RedirectsUnauthorized(calls[c].fn, calls[c].response, opts)
                THEN <<"redirect">>
                ELSE IF opts.onError = "none" THEN <<>> ELSE <<"onError">>

\* C22 (amended): when refetch ends, isLoading is false.  A failure sets error
\* to the failure message and calls a given onError once; refetch then
\* resolves to null, unless onError throws, and then refetch rejects with
\* what onError threw.  A non-SUCCESS body with errorCode UNAUTHORIZED while
\* redirectOnUnauthorized is set redirects, resolves to null, leaves error
\* null and calls no onError.
C22_RefetchRejectsOnlyWhenOnErrorThrows ==
  [][\A c \in Slots :
       (InFlight(c) /\ calls'[c].pc = "done"
          /\ calls[c].fn = "useAccountInfo.fetchAccountInfo") =>
         LET r == calls'[c] IN
         /\ ~hook'.isLoading
         /\ IF r.response.kind = "object" /\ r.response.result = "SUCCESS"
            THEN r.outcome = Return(r.response.data) /\ r.effects = <<>>
            ELSE IF RedirectsUnauthorized(r.fn, r.response, opts)
                 THEN /\ r.outcome = Return("null")
                      /\ r.effects = <<"redirect">>
                      /\ location' = "/login"
                      /\ hook'.error = hook.error
                 ELSE /\ hook'.error = Unwrap(r.fn, r.response).message
                      /\ hook'.error # Nil
                      /\ r.effects = IF opts.onError = "none" THEN <<>>
                                     ELSE <<"onError">>
                      /\ r.outcome = IF opts.onError = "throws"
                                     THEN Throw("Error", CallbackFailedMsg)
                                     ELSE Return("null")]_vars

C22_Witness ==
  /\ RefetchEnded(1)
  /\ calls[1].response.kind = "network"
  /\ opts.onError = "throws"
  /\ calls[1].outcome.kind = "throw"
  /\ calls[1].effects = <<"onError">>
  /\ hook.error = FetchFailedMsg
  /\ ~hook.isLoading

\* C24: one useLogout.logout() call invokes at most one of the callbacks:
\* a given onSuccess exactly when the server answered SUCCESS, a given
\* onError exactly when the logout failed; the redirect happens only after
\* SUCCESS and after onSuccess has run.
C24_AtMostOneLogoutCallback ==
  \A c \in Slots :
    (calls[c].pc = "done" /\ calls[c].fn = "useLogout.logout") =>
      /\ ~(Has(calls[c].effects, "onSuccess") /\ Has(calls[c].effects, "onError"))
      /\ opts.onSuccess # "none" => (Has(calls[c].effects, "onSuccess") <=> GotSuccess(c))
      /\ opts.onError # "none" => (Has(calls[c].effects, "onError") <=> ~GotSuccess(c))
      /\ Has(calls[c].effects, "redirect") =>
           /\ GotSuccess(c)
           /\ calls[c].effects[Len(calls[c].effects)] = "redirect"

\* the call in slot c ends in this step, and it ends as a failure
EndsFailed(c) ==
  /\ calls'[c] # calls[c]
  /\ calls'[c].pc = "done"
  /\ calls'[c].fn \in HookFns
  /\ \/ ~calls'[c].request.sent
     \/ calls'[c].response.kind \in {"network", "unparsable", "null"}
     \/ calls'[c].response.kind = "object" /\ calls'[c].response.result # "SUCCESS"

\* error goes from a message to null only by reset() or at the start of a call
ErrorClearedOnlyByStartOrReset ==
  (hook.error # Nil /\ hook'.error = Nil) =>
    \/ hook' = NoHook
    \/ \E c \in Slots : SlotFree(c) /\ calls'[c] # calls[c]

\* C25 (as stated): a failed hook call sets error to the failure message and
\* leaves data, posts and post as they were; only the start of a new call or
\* reset() clears error.
C25_FailureSetsErrorKeepsResult ==
  [][/\ \A c \in Slots :
          EndsFailed(c) =>
            /\ hook'.error # Nil
            /\ hook'.data = hook.data /\ hook'.post = hook.post
     /\ ErrorClearedOnlyByStartOrReset]_vars

\* C25 (amended): a failed hook call leaves data, posts and post as they
\* were and sets error to the failure message, except that useAccountInfo's
\* redirect on UNAUTHORIZED leaves error as it is; only the start of a new
\* call or reset() clears error.
C25_FailureKeepsResultSetsErrorUnlessRedirect ==
  [][/\ \A c \in Slots :
          EndsFailed(c) =>
            /\ hook'.data = hook.data /\ hook'.post = hook.post
            /\ IF RedirectsUnauthorized(calls'[c].fn, calls'[c].response, opts)
               THEN hook'.error = hook.error
               ELSE /\ hook'.error # Nil
                    /\ calls'[c].request.sent =>
                         hook'.error = Unwrap(calls'[c].fn, calls'[c].response).message
     /\ ErrorClearedOnlyByStartOrReset]_vars

C25_Witness ==
  /\ calls[1].pc = "done"
  /\ calls[1].fn = "useLogin.login"
  /\ GotFail(1)
  /\ hook.data = "token"
  /\ hook.error = "server message"

\* C26: useRecipient.register called with a phone number that fails
\* validatePhone sets error to the phone-format message and rejects with it,
\* sends no request, and leaves isLoading and data as they were.
C26_InvalidPhoneLeavesLoadingAndData ==
  [][\A c \in Slots :
       ( /\ SlotFree(c)
         /\ calls'[c] # calls[c]
         /\ calls'[c].fn = "useRecipient.register"
         /\ ~validatePhone(calls'[c].phone) ) =>
       ( /\ calls'[c].pc = "done"
         /\ calls'[c].outcome = Throw("Error", PhoneFormatMsg)
         /\ ~calls'[c].request.sent
         /\ hook'.error = PhoneFormatMsg
         /\ hook'.isLoading = hook.isLoading
         /\ hook'.data = hook.data )]_vars

\* register was refused for its phone number while an earlier register was
\* still in flight and a recipient from a still earlier one was stored
C26_Witness ==
  /\ mounted = "useRecipient"
  /\ InFlight(1)
  /\ calls[2].pc = "done"
  /\ calls[2].fn = "useRecipient.register"
  /\ ~validatePhone(calls[2].phone)
  /\ calls[2].outcome = Throw("Error", PhoneFormatMsg)
  /\ hook.isLoading
  /\ hook.data # Nil
  /\ hook.error = PhoneFormatMsg

(***************************************************************************)
(* Claims checked under SpecRecipient.                                     *)
(***************************************************************************)
\* the keys of a body, in order
BodyKeys(body) == [i \in 1..Len(body) |-> body[i][1]]

\* C27: every recipient request carries a body with exactly the fields name,
\* phone, description and data; description is the caller's description, or
\* one space when it is missing or empty; data is the JSON text of metadata,
\* or "{}" when metadata is absent; no field holds metadata as an object.
C27_RecipientBodyFields ==
  \A c \in Slots :
    (calls[c].request.sent /\ calls[c].fn \in RecipientFns) =>
      LET body == calls[c].request.body
          a == calls[c].args IN
      /\ BodyKeys(body) = <<"name", "phone", "description", "data">>
      /\ body[1][2] = a.name
      /\ body[2][2] = Concat(calls[c].phone)
      /\ body[3][2] = IF a.description = Nil \/ a.description = "" THEN " "
                      ELSE a.description
      /\ body[4][2] = IF ~a.metadata.given THEN "{}"
                      ELSE IF a.metadata.entries = <<>> THEN "{}"
                      ELSE "{\"source\":\"web\",\"n\":\"1\"}"

C27_Witness ==
  /\ calls[1].pc = "done"
  /\ calls[1].fn = "useRecipient.register"
  /\ calls[1].args.description = ""
  /\ calls[1].args.metadata.given /\ calls[1].args.metadata.entries # <<>>
  /\ calls[1].request.body =
       <<<<"name", "Kim">>, <<"phone", "010-1234-5678">>, <<"description", " ">>,
         <<"data", "{\"source\":\"web\",\"n\":\"1\"}">>>>

(***************************************************************************)
(* Claims checked under SpecRender.                                        *)
(***************************************************************************)
\* C23: with enabled = true useAccountInfo issues exactly one automatic
\* request per mount, however often the component renders and also when
\* every render passes a new onError; with enabled = false it issues none and
\* starts with isLoading = false.
C23_OneAutomaticRequestPerMount ==
  /\ rd.pc = "idle" => rd.autoRequests = IF rd.enabled THEN 1 ELSE 0
  /\ (rd.pc = "commit" /\ rd.renders = 1) => rd.isLoading = rd.enabled

(***************************************************************************)
(* Claims checked under SpecHooks.                                         *)
(***************************************************************************)
\* C18: in every hook, isLoading is true whenever at least one request that
\* was started through the instance has not settled yet, also when calls
\* overlap.
C18_LoadingWhileAnyInFlight ==
  (\E c \in Slots : InFlight(c) /\ calls[c].fn \in HookFns) => hook.isLoading

\* C19: once every call made through the instance has ended, whether it
\* settled or failed before it was sent, isLoading is false; so with no
\* overlapping call it is false right after the call ends, on every path.
C19_LoadingFalseOnceAllEnded ==
  (/\ \A c \in Slots : ~InFlight(c)
   /\ \E c \in Slots : calls[c].pc = "done") => ~hook.isLoading

C19_Witness ==
  /\ calls[1].pc = "done"
  /\ calls[1].fn = "useLogin.login"
  /\ calls[1].fetches = 0
  /\ calls[1].outcome.kind = "throw"
  /\ hook.error # Nil
  /\ ~hook.isLoading

\* the state field in which the action f stores its result
Stored(h, f) ==
  IF f \in {"useNotice.fetchPost", "useFaq.fetchPost"} THEN h.post ELSE h.data

\* C20: the stored result is always the data of the successful call that
\* settled last: a call that settles with SUCCESS stores its data over what
\* is there, whichever call was started first, and a call that fails leaves
\* the stored result alone.
C20_LastSettledSuccessStored ==
  [][\A c \in Slots :
       (InFlight(c) /\ calls'[c].pc = "done" /\ calls[c].fn # "useLogout.logout") =>
         IF calls'[c].response.result = "SUCCESS"
         THEN Stored(hook', calls[c].fn) = calls'[c].response.data
         ELSE hook'.data = hook.data /\ hook'.post = hook.post]_vars

C20_Witness ==
  /\ calls[1].pc = "done" /\ calls[2].pc = "done"
  /\ calls[1].fn = calls[2].fn
  /\ calls[1].fn \in HookFns \ {"useLogout.logout"}
  /\ calls[1].response.result = "SUCCESS" /\ calls[2].response.result = "SUCCESS"
  /\ calls[1].response.data # calls[2].response.data
  /\ Stored(hook, calls[1].fn) = calls[1].response.data

\* C21: once reset() has cleared the hook (data, posts, post and error null,
\* isLoading false), the state stays cleared until a new call is started,
\* also when a request that was started before the reset settles after it.
C21_ResetStateStaysCleared ==
  [][(hook = NoHook /\ \E c \in Slots : InFlight(c) /\ calls[c].fn \in HookFns)
       => (hook' = NoHook \/ \E c \in Slots : SlotFree(c) /\ calls'[c] # calls[c])]_vars

(***************************************************************************)
(* Claims checked under SpecPhone.                                         *)
(***************************************************************************)
\* C15: formatPhone is idempotent for every input, and formatPhone of
\* "01012345678" is "010-1234-5678", in both implementations.
C15_FormatPhoneIdempotent ==
  /\ ph.applied = 2 => ph.text = ph.prev
  /\ (ph.applied >= 1 /\ ph.input = PhoneBare) => ph.text = PhoneValid

C15_Witness ==
  /\ ph.applied = 2
  /\ ph.impl = "config.ts"
  /\ ph.input # ph.text
  /\ Len(StripNonDigits(ph.input)) = 10

\* the strings of the shape 010-dddd-dddd, 13 characters
WellShaped(s) ==
  /\ Len(s) = 13
  /\ SubSeq(s, 1, 4) = <<"0", "1", "0", "-">>
  /\ s[9] = "-"
  /\ \A i \in (5..8) \cup (10..13) : s[i] \in Digits

\* C16: validatePhone is true exactly for the 13-character strings of the
\* shape 010-dddd-dddd, and every input whose digits are exactly 11 and start
\* with 010 validates once it has been formatted.
C16_ValidatePhoneExactShape ==
  ph.pc = "validated" =>
    /\ ph.valid = WellShaped(ph.text)
    /\ (/\ ph.applied >= 1
        /\ Len(StripNonDigits(ph.input)) = 11
        /\ SubSeq(StripNonDigits(ph.input), 1, 3) = <<"0", "1", "0">>) => ph.valid

C16_Witness ==
  /\ ph.pc = "validated"
  /\ ph.valid = TRUE
  /\ ph.applied = 1
  /\ ph.impl = "config.ts"
  /\ ph.input # ph.text

(***************************************************************************)
(* More claims checked under SpecClassify.                                 *)
(***************************************************************************)

\* the lines a handler has shown to the user, alerts first
ShownLines ==
  (IF cls.alerts = <<>> THEN <<>> ELSE cls.alerts[1]) \o cls.toasts

\* a FAIL envelope has been handled by one of the three handlers
Handled == cls.pc = "done" /\ cls.error.kind = "object" /\ cls.error.result = "FAIL"

DetailLine(d) == d.field \o ": " \o d.reason

====
